---------------------------- MODULE Spec2Model ----------------------------
(***************************************************************************)
(* A model of move-smith's differential-testing oracle:                    *)
(*   src/src/execution/mod.rs            the Executor trait                *)
(*   src/src/execution/transactional.rs  TransactionalRunner and the       *)
(*                                       log -> chunks -> status pipeline  *)
(*                                                                         *)
(* Text is modelled as a sequence of characters (each a one-element        *)
(* string), so that trimming, splitting, substring tests and the regex     *)
(* substitutions are computed the way the Rust code computes them.  A      *)
(* character carries its UTF-8 width, because str::len and str::split_at   *)
(* count bytes.                                                            *)
(***************************************************************************)
EXTENDS Naturals, Sequences, FiniteSets

VARIABLES
    pc,             \* position of the sequential driver of each specification
    log,            \* split_diff_log: the log: &str argument
    split,          \* split_diff_log: what the call produced
    lines,          \* log_to_chunck: the log: Vec<String> argument
    parsed,         \* log_to_chunck: what the call produced
    v1_chunks,      \* check_chunks: first argument
    v2_chunks,      \* check_chunks: second argument
    status,         \* check_chunks: the returned ResultStatus
    headlines,      \* the two renamed headlines fed to from_run_result
    canon,          \* from_run_result of the renamed pair
    saved_results,  \* TransactionalRunner.saved_results
    saved_calls,    \* history: the results handed to save_result so far
    ext,            \* what the external toolchain did in the last execute_one
    call,           \* the last Executor call: op, result, ret, trace
    hook,           \* the process-wide panic hook
    tpc,            \* per thread: position inside execute_one
    prev_hook,      \* per thread: the local prev_hook
    ncalls          \* per thread: execute_one calls completed

vars ==
    <<pc, log, split, lines, parsed, v1_chunks, v2_chunks, status, headlines,
      canon, saved_results, saved_calls, ext, call, hook, tpc, prev_hook, ncalls>>

-----------------------------------------------------------------------------
(* Characters.  Euro stands for a character whose UTF-8 encoding is three   *)
(* bytes long, EAcute for one of two bytes; every other character is ASCII. *)

Euro ==
    "U+20AC"

EAcute ==
    "U+00E9"

\* the backtick character (U+0060)
Backtick ==
    "U+0060"

Utf8Len(c) ==
    IF c = Euro THEN 3 ELSE IF c = EAcute THEN 2 ELSE 1

\* char::is_whitespace, restricted to the characters of the model
IsWhitespace(c) ==
    c \in {" ", "\t", "\n", "\r"}

-----------------------------------------------------------------------------
(* String literals of the source.                                           *)

Str_warning ==
    <<"w","a","r","n","i","n","g">>
Str_task ==
    <<"t","a","s","k">>
Str_VMError ==
    <<"V","M","E","r","r","o","r">>
Str_error ==
    <<"e","r","r","o","r">>
Str_bug ==
    <<"b","u","g">>
Str_panic ==
    <<"p","a","n","i","c">>
Str_Success ==
    <<"S","u","c","c","e","s","s">>
Str_major_status ==
    <<"m","a","j","o","r","_","s","t","a","t","u","s">>
Str_major_status_label ==
    <<"m","a","j","o","r","_","s","t","a","t","u","s",":"," ">>
Str_error_code_label ==
    <<"e","r","r","o","r","_","c","o","d","e",":"," ">>
Str_bytecode_verification_failed ==
    <<"b","y","t","e","c","o","d","e"," ","v","e","r","i","f","i","c","a","t","i","o","n"," ","f","a","i","l","e","d">>
Str_mutable_ownership_violated ==
    <<"m","u","t","a","b","l","e"," ","o","w","n","e","r","s","h","i","p"," ","v","i","o","l","a","t","e","d">>
Str_still_mutably_borrowed ==
    <<"w","h","i","c","h"," ","i","s"," ","s","t","i","l","l"," ","m","u","t","a","b","l","y"," ","b","o","r","r","o","w","e","d">>
Str_cannot_copy ==
    <<".",".",".","c","a","n","n","o","t"," ","c","o","p","y"," ","w","h","i","l","e"," ","m","u","t","a","b","l","y"," ","b","o","r","r","o","w","e","d",".",".",".">>
Str_cannot_extract_resource ==
    <<"c","a","n","n","o","t"," ","e","x","t","r","a","c","t"," ","r","e","s","o","u","r","c","e">>
Str_function_acquires_global ==
    <<"f","u","n","c","t","i","o","n"," ","a","c","q","u","i","r","e","s"," ","g","l","o","b","a","l">>
Str_cannot_acquire ==
    <<".",".",".","c","a","n","n","o","t"," ","a","c","q","u","i","r","e",".",".",".">>
Str_cannot_infer_type ==
    <<"c","a","n","n","o","t"," ","i","n","f","e","r"," ","t","y","p","e">>
Str_unable_to_infer ==
    <<"u","n","a","b","l","e"," ","t","o"," ","i","n","f","e","r"," ","i","n","s","t","a","n","t","i","a","t","i","o","n"," ","o","f"," ","t","y","p","e">>
Str_cannot_infer_type_sig ==
    <<".",".",".","c","a","n","n","o","t"," ","i","n","f","e","r"," ","t","y","p","e",".",".",".">>
Str_local ==
    <<"l","o","c","a","l">>
Str_module ==
    <<"m","o","d","u","l","e">>
Str_type ==
    <<"t","y","p","e">>
Str_Some ==
    <<"S","o","m","e">>
Str_some_variable ==
    <<"[","s","o","m","e"," ","v","a","r","i","a","b","l","e","]">>
Str_some_module ==
    <<"[","s","o","m","e"," ","m","o","d","u","l","e","]">>
Str_some_type ==
    <<"[","s","o","m","e"," ","t","y","p","e","]">>
Str_some_value ==
    <<"[","s","o","m","e"," ","v","a","l","u","e","]">>
Str_Any ==
    <<"A","n","y"," ","{"," ",".","."," ","}">>

Str_comma ==
    <<",">>

-----------------------------------------------------------------------------
(* The str and Regex operations the code uses.                              *)

\* str::len: the length in bytes
RECURSIVE ByteLen(_)
ByteLen(s) ==
    IF s = <<>> THEN 0 ELSE Utf8Len(Head(s)) + ByteLen(Tail(s))

\* str::is_char_boundary
IsCharBoundary(s, mid) ==
    \E k \in 0..Len(s) : ByteLen(SubSeq(s, 1, k)) = mid

\* the number of characters before byte offset mid, a character boundary
CharsBefore(s, mid) ==
    CHOOSE k \in 0..Len(s) : ByteLen(SubSeq(s, 1, k)) = mid

\* str::trim_start
RECURSIVE TrimStart(_)
TrimStart(s) ==
    IF s # <<>> /\ IsWhitespace(Head(s)) THEN TrimStart(Tail(s)) ELSE s

\* str::trim_end
RECURSIVE TrimEnd(_)
TrimEnd(s) ==
    IF s # <<>> /\ IsWhitespace(s[Len(s)])
    THEN TrimEnd(SubSeq(s, 1, Len(s) - 1))
    ELSE s

\* str::trim
Trim(s) ==
    TrimEnd(TrimStart(s))

\* whether pat occurs in s at character position p
MatchesAt(s, p, pat) ==
    /\ p + Len(pat) - 1 <= Len(s)
    /\ SubSeq(s, p, p + Len(pat) - 1) = pat

\* str::starts_with
StartsWith(s, pat) ==
    MatchesAt(s, 1, pat)

\* str::contains
Contains(s, pat) ==
    \E p \in 1..(Len(s) + 1) : MatchesAt(s, p, pat)

\* the least position >= p of s holding character c, 0 when there is none
IndexFrom(s, p, c) ==
    LET found == {i \in p..Len(s) : s[i] = c}
    IN  IF found = {} THEN 0 ELSE CHOOSE i \in found : \A j \in found : i <= j

\* str::replace: every non-overlapping occurrence of from, left to right
RECURSIVE ReplaceFrom(_, _, _, _)
ReplaceFrom(s, p, from, to) ==
    IF p > Len(s) THEN <<>>
    ELSE IF MatchesAt(s, p, from)
         THEN to \o ReplaceFrom(s, p + Len(from), from, to)
         ELSE <<s[p]>> \o ReplaceFrom(s, p + 1, from, to)

Replace(s, from, to) ==
    ReplaceFrom(s, 1, from, to)

\* str::lines: split at "\n", a "\r" before it removed, no empty last line
RECURSIVE StrLines(_)
StrLines(s) ==
    IF s = <<>> THEN <<>>
    ELSE LET nl   == IndexFrom(s, 1, "\n")
             raw  == IF nl = 0 THEN s ELSE SubSeq(s, 1, nl - 1)
             line == IF nl # 0 /\ raw # <<>> /\ raw[Len(raw)] = "\r"
                     THEN SubSeq(raw, 1, Len(raw) - 1)
                     ELSE raw
         IN  IF nl = 0 THEN <<line>>
             ELSE <<line>> \o StrLines(SubSeq(s, nl + 1, Len(s)))

\* the first position >= p of s that holds no whitespace (Len(s) + 1 at the end)
RECURSIVE SkipWhitespace(_, _)
SkipWhitespace(s, p) ==
    IF p <= Len(s) /\ IsWhitespace(s[p]) THEN SkipWhitespace(s, p + 1) ELSE p

(* A pattern  lit \s+ open [^close]+ close  (ws = TRUE) or                  *)
(*            lit open [^close]+ close      (ws = FALSE).                   *)
(* RegexMatchEnd is the position of the last character of the match that    *)
(* starts at p, 0 when none starts there: \s+ and [^close]+ are greedy and  *)
(* neither can give a character back to what follows it.                    *)
RegexMatchEnd(re, s, p) ==
    LET a == p + Len(re.lit)
        b == IF re.ws THEN SkipWhitespace(s, a) ELSE a
        c == IndexFrom(s, b + 1, re.close)
    IN  IF /\ MatchesAt(s, p, re.lit)
           /\ (re.ws => b > a)
           /\ b <= Len(s)
           /\ s[b] = re.open
           /\ c > b + 1
        THEN c
        ELSE 0

\* Regex::replace_all: the leftmost matches, none overlapping, each replaced
RECURSIVE RegexReplaceFrom(_, _, _, _)
RegexReplaceFrom(re, s, p, to) ==
    IF p > Len(s) THEN <<>>
    ELSE LET e == RegexMatchEnd(re, s, p)
         IN  IF e # 0
             THEN to \o RegexReplaceFrom(re, s, e + 1, to)
             ELSE <<s[p]>> \o RegexReplaceFrom(re, s, p + 1, to)

RegexReplaceAll(re, s, to) ==
    RegexReplaceFrom(re, s, 1, to)

LOCAL_PAT ==
    [lit |-> Str_local, ws |-> TRUE, open |-> Backtick, close |-> Backtick]

MODULE_PAT ==
    [lit |-> Str_module, ws |-> TRUE, open |-> "'", close |-> "'"]

TYPE_PAT ==
    [lit |-> Str_type, ws |-> TRUE, open |-> Backtick, close |-> Backtick]

SOME_PAT ==
    [lit |-> Str_Some, ws |-> FALSE, open |-> "(", close |-> ")"]

(* ERROR_CODE_PAT.captures(top): the text between the first backtick and    *)
(* the next one (it may be empty); found = FALSE when there is no pair.     *)
ERROR_CODE_PAT(s) ==
    LET i == IndexFrom(s, 1, Backtick)
        j == IF i = 0 THEN 0 ELSE IndexFrom(s, i + 1, Backtick)
    IN  IF j = 0
        THEN [found |-> FALSE, group |-> <<>>]
        ELSE [found |-> TRUE, group |-> SubSeq(s, i + 1, j - 1)]

-----------------------------------------------------------------------------
(* TransactionalResult::split_diff_log                                      *)

\* one iteration of the loop: what the line adds to left and to right, or
\* the panic of split_at(2) at a byte offset inside a character
SplitLine(raw) ==
    LET line == Trim(raw)
    IN  IF ByteLen(line) < 2
        THEN [panicked |-> FALSE, left |-> <<>>, right |-> <<>>]
        ELSE IF ~IsCharBoundary(Trim(line), 2)
        THEN [panicked |-> TRUE, left |-> <<>>, right |-> <<>>]
        ELSE LET k         == CharsBefore(Trim(line), 2)
                 diff_sign == SubSeq(Trim(line), 1, k)
                 content   == Trim(SubSeq(Trim(line), k + 1, Len(Trim(line))))
             IN  IF Trim(diff_sign) = <<"-">>
                 THEN [panicked |-> FALSE, left |-> <<content>>, right |-> <<>>]
                 ELSE IF Trim(diff_sign) = <<"+">>
                 THEN [panicked |-> FALSE, left |-> <<>>, right |-> <<content>>]
                 ELSE IF Trim(diff_sign) = <<"=">>
                 THEN [panicked |-> FALSE, left |-> <<content>>,
                       right |-> <<content>>]
                 ELSE [panicked |-> FALSE, left |-> <<>>, right |-> <<>>]

RECURSIVE SplitLines(_)
SplitLines(ls) ==
    IF ls = <<>> THEN [panicked |-> FALSE, left |-> <<>>, right |-> <<>>]
    ELSE LET one == SplitLine(Head(ls))
         IN  IF one.panicked THEN one
             ELSE LET rest == SplitLines(Tail(ls))
                  IN  IF rest.panicked THEN rest
                      ELSE [panicked |-> FALSE,
                            left  |-> one.left \o rest.left,
                            right |-> one.right \o rest.right]

split_diff_log(l) ==
    SplitLines(StrLines(l))

-----------------------------------------------------------------------------
(* ResultChunkKind::try_from_str; "None" stands for Option::None            *)

try_from_str(msg) ==
    IF Contains(msg, Str_warning) THEN "Warning"
    ELSE IF Contains(msg, Str_task) THEN "Task"
    ELSE IF Contains(msg, Str_VMError) THEN "VMError"
    ELSE IF StartsWith(msg, Str_error) THEN "Error"
    ELSE IF StartsWith(msg, Str_bug) THEN "Bug"
    ELSE IF StartsWith(msg, Str_panic) THEN "Panic"
    ELSE "None"

-----------------------------------------------------------------------------
(* ResultChunk::get_canonicalized_msg.  panicked: Option::unwrap on a line  *)
(* the chunk does not have.                                                 *)

\* the rules with the substitution of LOCAL_PAT left out
CanonicalOfTop_WithoutLocalPat(top) ==
    IF Contains(top, Str_major_status)
    THEN Replace(Replace(top, Str_major_status_label, Str_error_code_label),
                 Str_comma, <<>>)
    ELSE IF /\ Contains(top, Str_bytecode_verification_failed)
            /\ ERROR_CODE_PAT(top).found
    THEN Str_error_code_label \o ERROR_CODE_PAT(top).group
    ELSE IF \/ Contains(top, Str_mutable_ownership_violated)
            \/ Contains(top, Str_still_mutably_borrowed)
    THEN Str_cannot_copy
    ELSE IF \/ Contains(top, Str_cannot_extract_resource)
            \/ Contains(top, Str_function_acquires_global)
    THEN Str_cannot_acquire
    ELSE IF \/ Contains(top, Str_cannot_infer_type)
            \/ Contains(top, Str_unable_to_infer)
    THEN Str_cannot_infer_type_sig
    ELSE LET r2 == RegexReplaceAll(MODULE_PAT, top, Str_some_module)
             r3 == RegexReplaceAll(TYPE_PAT, r2, Str_some_type)
         IN  RegexReplaceAll(SOME_PAT, r3, Str_some_value)

\* the rules applied to the headline top
CanonicalOfTop(top) ==
    IF Contains(top, Str_major_status)
    THEN Replace(Replace(top, Str_major_status_label, Str_error_code_label),
                 Str_comma, <<>>)
    ELSE IF /\ Contains(top, Str_bytecode_verification_failed)
            /\ ERROR_CODE_PAT(top).found
    THEN Str_error_code_label \o ERROR_CODE_PAT(top).group
    ELSE IF \/ Contains(top, Str_mutable_ownership_violated)
            \/ Contains(top, Str_still_mutably_borrowed)
    THEN Str_cannot_copy
    ELSE IF \/ Contains(top, Str_cannot_extract_resource)
            \/ Contains(top, Str_function_acquires_global)
    THEN Str_cannot_acquire
    ELSE IF \/ Contains(top, Str_cannot_infer_type)
            \/ Contains(top, Str_unable_to_infer)
    THEN Str_cannot_infer_type_sig
    ELSE LET r1 == RegexReplaceAll(LOCAL_PAT, top, Str_some_variable)
             r2 == RegexReplaceAll(MODULE_PAT, r1, Str_some_module)
             r3 == RegexReplaceAll(TYPE_PAT, r2, Str_some_type)
         IN  RegexReplaceAll(SOME_PAT, r3, Str_some_value)

get_canonicalized_msg(chunk) ==
    IF chunk.kind = "VMError"
    THEN IF Len(chunk.lines) < 2
         THEN [panicked |-> TRUE, value |-> <<>>]
         ELSE [panicked |-> FALSE, value |-> CanonicalOfTop(Trim(chunk.lines[2]))]
    ELSE IF Len(chunk.lines) < 1
         THEN [panicked |-> TRUE, value |-> <<>>]
         ELSE [panicked |-> FALSE, value |-> CanonicalOfTop(chunk.lines[1])]

-----------------------------------------------------------------------------
(* ResultChunk::log_to_chunck                                               *)

\* the for loop: chunks so far, lines still to read
RECURSIVE GroupLines(_, _)
GroupLines(chunks, ls) ==
    IF ls = <<>> THEN chunks
    ELSE LET line == Head(ls)
             kind == try_from_str(line)
             n    == Len(chunks)
         IN  IF kind # "None"
             THEN GroupLines(
                      Append(chunks,
                             [canonical |-> <<>>, kind |-> kind,
                              lines |-> <<line>>]),
                      Tail(ls))
             ELSE IF n > 0
             THEN GroupLines(
                      [chunks EXCEPT ![n].lines = Append(@, line)],
                      Tail(ls))
             ELSE GroupLines(chunks, Tail(ls))

NotWarning(e) ==
    e.kind # "Warning"

\* the chunks after chunks.retain(..), canonical still empty
RetainedChunks(ls) ==
    SelectSeq(GroupLines(<<>>, ls), NotWarning)

\* chunks.iter_mut().for_each(|e| e.canonical = e.get_canonicalized_msg()),
\* msgs[i] being what get_canonicalized_msg gave for chunks[i]
SetCanonical(chunks, msgs) ==
    IF \E i \in 1..Len(chunks) : msgs[i].panicked
    THEN [panicked |-> TRUE, chunks |-> <<>>]
    ELSE [panicked |-> FALSE,
          chunks |-> [i \in 1..Len(chunks) |->
                        [chunks[i] EXCEPT !.canonical = msgs[i].value]]]

CanonicalizeAll(chunks) ==
    SetCanonical(chunks,
                 [i \in 1..Len(chunks) |-> get_canonicalized_msg(chunks[i])])

log_to_chunck(ls) ==
    CanonicalizeAll(RetainedChunks(ls))

-----------------------------------------------------------------------------
(* ResultStatus::check_chunks                                               *)

\* the for loop from index i on
RECURSIVE CheckFrom(_, _, _)
CheckFrom(v1, v2, i) ==
    IF i > Len(v1) THEN "Success"
    ELSE IF v2[i].kind = "Bug" THEN "Failure"
    ELSE IF v1[i].canonical # v2[i].canonical THEN "Failure"
    ELSE CheckFrom(v1, v2, i + 1)

\* check_chunks looking for the Bug chunk on side A instead of side B
RECURSIVE CheckFrom_BugOnSideA(_, _, _)
CheckFrom_BugOnSideA(v1, v2, i) ==
    IF i > Len(v1) THEN "Success"
    ELSE IF v1[i].kind = "Bug" THEN "Failure"
    ELSE IF v1[i].canonical # v2[i].canonical THEN "Failure"
    ELSE CheckFrom_BugOnSideA(v1, v2, i + 1)

check_chunks_BugOnSideA(v1, v2) ==
    IF v1 = <<>> /\ v2 = <<>> THEN "Success"
    ELSE IF Len(v1) # Len(v2) THEN "Failure"
    ELSE CheckFrom_BugOnSideA(v1, v2, 1)

check_chunks(v1, v2) ==
    IF v1 = <<>> /\ v2 = <<>> THEN "Success"
    ELSE IF Len(v1) # Len(v2) THEN "Failure"
    ELSE CheckFrom(v1, v2, 1)

-----------------------------------------------------------------------------
(* TransactionalResult::from_run_result.  res is the Result of the run:     *)
(* [ok |-> TRUE] or [ok |-> FALSE, err |-> the Debug text of the error].    *)
(* panicked: a panic of split_at or of unwrap unwinds out of the call.      *)

NoResult ==
    [log |-> <<>>, status |-> "Unknown", v1_chunks |-> <<>>,
     v2_chunks |-> <<>>, duration |-> 0]

\* the Err arm once both sides are chunked
ResultOfChunks(log_text, c1, c2, duration) ==
    IF c1.panicked \/ c2.panicked
    THEN [panicked |-> TRUE, result |-> NoResult]
    ELSE [panicked |-> FALSE,
          result |-> [log |-> log_text,
                      status |-> check_chunks(c1.chunks, c2.chunks),
                      v1_chunks |-> c1.chunks,
                      v2_chunks |-> c2.chunks,
                      duration |-> duration]]

\* the Err arm once the log is split into (v1_log, v2_log)
ResultOfSplit(log_text, sp, duration) ==
    IF sp.panicked
    THEN [panicked |-> TRUE, result |-> NoResult]
    ELSE ResultOfChunks(log_text, log_to_chunck(sp.left),
                        log_to_chunck(sp.right), duration)

from_run_result(res, duration) ==
    IF res.ok
    THEN [panicked |-> FALSE,
          result |-> [log |-> Str_Success, status |-> "Success",
                      v1_chunks |-> <<>>, v2_chunks |-> <<>>,
                      duration |-> duration]]
    ELSE ResultOfSplit(res.err, split_diff_log(res.err), duration)

-----------------------------------------------------------------------------
(* Values the variables of a specification hold while it does not use them. *)

NoSplit ==
    [panicked |-> FALSE, left |-> <<>>, right |-> <<>>]

NoParse ==
    [panicked |-> FALSE, chunks |-> <<>>]

NoHeadlines ==
    [pre |-> <<>>, x |-> <<>>, y |-> <<>>, post |-> <<>>, vm |-> FALSE]

NoCall ==
    [op |-> "none", trace |-> <<>>, result |-> NoResult, ignore |-> FALSE,
     ret |-> "none"]

NoExt ==
    [kind |-> "none", text |-> <<>>]

IdleSplit ==
    log = <<>> /\ split = NoSplit

IdleParse ==
    lines = <<>> /\ parsed = NoParse

IdleChunks ==
    v1_chunks = <<>> /\ v2_chunks = <<>> /\ status = "Unknown"

IdleCanon ==
    headlines = NoHeadlines /\ canon = [panicked |-> FALSE, result |-> NoResult]

IdleExec ==
    saved_results = {} /\ saved_calls = <<>> /\ ext = NoExt /\ call = NoCall

IdleHook ==
    hook = "orig" /\ tpc = <<>> /\ prev_hook = <<>> /\ ncalls = <<>>

splitVars == <<log, split>>
parseVars == <<lines, parsed>>
chunkVars == <<v1_chunks, v2_chunks, status>>
canonVars == <<headlines, canon>>
execVars  == <<saved_results, saved_calls, ext, call>>
hookVars  == <<hook, tpc, prev_hook, ncalls>>

-----------------------------------------------------------------------------
(* SpecSplit: a log is written line by line, then split_diff_log reads it.  *)

\* the most lines a log of SpecSplit holds
MaxLogLines ==
    3

\* the lines a log is written from
SplitInputLines ==
    { <<"-"," ","a">>,                  \* "- a"
      <<"+"," ","b">>,                  \* "+ b"
      <<"="," ","c">>,                  \* "= c"
      <<" "," ","="," ","d"," "," ">>,  \* "  = d  "
      <<"=","e">>,                      \* "=e"
      <<"x","y">>,                      \* "xy"
      <<"-">>,                          \* "-"
      <<" ">>,                          \* " "
      <<Euro>>,                         \* one character, three bytes
      <<"a",Euro," ","b">>,             \* byte offset 2 is inside the Euro
      <<EAcute>> }                      \* one character, two bytes

LineEndings ==
    { <<"\n">>, <<"\r","\n">> }

NumLines(l) ==
    Len(StrLines(l))

InitSplit ==
    /\ pc = "writing"
    /\ IdleSplit /\ IdleParse /\ IdleChunks /\ IdleCanon /\ IdleExec /\ IdleHook

\* the external toolchain writes one more line of its diff
WriteLine(l, eol) ==
    /\ pc = "writing"
    /\ NumLines(log) < MaxLogLines
    /\ log' = IF log = <<>> THEN l ELSE log \o eol \o l
    /\ UNCHANGED <<pc, split, parseVars, chunkVars, canonVars, execVars, hookVars>>

\* let (v1_log, v2_log) = Self::split_diff_log(&log)
SplitDiffLog ==
    /\ pc = "writing"
    /\ split' = split_diff_log(log)
    /\ pc' = "split"
    /\ UNCHANGED <<log, parseVars, chunkVars, canonVars, execVars, hookVars>>

NextSplit ==
    \/ \E l \in SplitInputLines, eol \in LineEndings : WriteLine(l, eol)
    \/ SplitDiffLog

SpecSplit ==
    InitSplit /\ [][NextSplit]_vars

(* What the claim says of one line: the side it goes to, by its marker.     *)
ClaimedSide(raw) ==
    LET t == Trim(raw)
    IN  IF Len(t) < 2 THEN "neither"
        ELSE IF SubSeq(t, 1, 2) = <<"-", " ">> THEN "A"
        ELSE IF SubSeq(t, 1, 2) = <<"+", " ">> THEN "B"
        ELSE IF SubSeq(t, 1, 2) = <<"=", " ">> THEN "both"
        ELSE "neither"

ClaimedContent(raw) ==
    Trim(SubSeq(Trim(raw), 3, Len(Trim(raw))))

RECURSIVE ClaimedLines(_, _)
ClaimedLines(ls, sides) ==
    IF ls = <<>> THEN <<>>
    ELSE (IF ClaimedSide(Head(ls)) \in sides
          THEN <<ClaimedContent(Head(ls))>>
          ELSE <<>>) \o ClaimedLines(Tail(ls), sides)

(* C7: for every log, split_diff_log returns A = the contents of the "- "   *)
(* and "= " lines and B = the contents of the "+ " and "= " lines, each in  *)
(* the order of the log; every other line, and every line shorter than two  *)
(* characters after trimming, goes to neither.                              *)
C7_SplitDecidesEachLine ==
    pc = "split" =>
        /\ ~split.panicked
        /\ split.left = ClaimedLines(StrLines(log), {"A", "both"})
        /\ split.right = ClaimedLines(StrLines(log), {"B", "both"})

\* the same statement for the logs whose characters are all ASCII
C7_HoldsOnAsciiLogs ==
    (pc = "split" /\ \A i \in 1..Len(log) : Utf8Len(log[i]) = 1) =>
        /\ ~split.panicked
        /\ split.left = ClaimedLines(StrLines(log), {"A", "both"})
        /\ split.right = ClaimedLines(StrLines(log), {"B", "both"})

-----------------------------------------------------------------------------
(* SpecParse: one side's lines are collected, then log_to_chunck reads them *)

\* the most lines handed to log_to_chunck in SpecParse
MaxLines ==
    3

\* the lines one side of a diff is made of
ParseInputLines ==
    { <<"e","r","r","o","r",":"," ","f","o","o">>,      \* "error: foo"
      <<" "," ","d","e","t","a","i","l">>,              \* "  detail"
      <<"b","u","g",":"," ","b","a","r">>,              \* "bug: bar"
      <<"w","a","r","n","i","n","g",":"," ","w">>,      \* "warning: w"
      <<"V","M","E","r","r","o","r">>,                  \* "VMError"
      <<"m","a","j","o","r","_","s","t","a","t","u","s",":"," ","X",",">>,
                                                        \* "major_status: X,"
      <<"t","a","s","k"," ","0"," ","e","r","r","o","r">>,  \* "task 0 error"
      <<"p","a","n","i","c"," ","a","t"," ","x">>,      \* "panic at x"
      <<"n","o"," ","e","r","r","o","r">> }             \* "no error"

InitParse ==
    /\ pc = "collecting"
    /\ IdleSplit /\ IdleParse /\ IdleChunks /\ IdleCanon /\ IdleExec /\ IdleHook

\* split_diff_log pushed one more line to this side
PushLine(l) ==
    /\ pc = "collecting"
    /\ Len(lines) < MaxLines
    /\ lines' = Append(lines, l)
    /\ UNCHANGED <<pc, parsed, splitVars, chunkVars, canonVars, execVars, hookVars>>

\* let v1_chunks = ResultChunk::log_to_chunck(v1_log)
LogToChunck ==
    /\ pc = "collecting"
    /\ parsed' = log_to_chunck(lines)
    /\ pc' = "parsed"
    /\ UNCHANGED <<lines, splitVars, chunkVars, canonVars, execVars, hookVars>>

NextParse ==
    \/ \E l \in ParseInputLines : PushLine(l)
    \/ LogToChunck

SpecParse ==
    InitParse /\ [][NextParse]_vars

(* What the claim says of a line sequence: the kind of a line by the        *)
(* priority of the signatures, the chunk a head line opens, and the chunks  *)
(* that remain once the Warning ones are removed.                           *)
ClaimedKind(l) ==
    CASE Contains(l, Str_warning) -> "Warning"
      [] ~Contains(l, Str_warning) /\ Contains(l, Str_task) -> "Task"
      [] ~Contains(l, Str_warning) /\ ~Contains(l, Str_task)
            /\ Contains(l, Str_VMError) -> "VMError"
      [] ~Contains(l, Str_warning) /\ ~Contains(l, Str_task)
            /\ ~Contains(l, Str_VMError) /\ StartsWith(l, Str_error) -> "Error"
      [] ~Contains(l, Str_warning) /\ ~Contains(l, Str_task)
            /\ ~Contains(l, Str_VMError) /\ StartsWith(l, Str_bug) -> "Bug"
      [] ~Contains(l, Str_warning) /\ ~Contains(l, Str_task)
            /\ ~Contains(l, Str_VMError) /\ StartsWith(l, Str_panic) -> "Panic"
      [] OTHER -> "None"

\* the positions of the lines that start a chunk
ClaimedHeads(ls) ==
    {i \in 1..Len(ls) : ClaimedKind(ls[i]) # "None"}

\* the last line of the chunk the head at position i opens
ClaimedEnd(ls, i) ==
    LET later == {j \in ClaimedHeads(ls) : j > i}
    IN  IF later = {} THEN Len(ls)
        ELSE (CHOOSE j \in later : \A k \in later : j <= k) - 1

\* the heads that are kept, in increasing order
RECURSIVE SortedSeq(_)
SortedSeq(S) ==
    IF S = {} THEN <<>>
    ELSE LET m == CHOOSE i \in S : \A j \in S : i <= j
         IN  <<m>> \o SortedSeq(S \ {m})

ClaimedKeptHeads(ls) ==
    SortedSeq({i \in ClaimedHeads(ls) : ClaimedKind(ls[i]) # "Warning"})

(* C8: for every line sequence, log_to_chunck returns, in source order, one *)
(* chunk per line that matches a kind signature and is not a Warning, of    *)
(* the kind the priority gives, holding that line and the non-matching      *)
(* lines after it; lines before the first chunk are discarded.              *)
C8_ChunksGroupedByKind ==
    pc = "parsed" =>
        LET heads == ClaimedKeptHeads(lines)
        IN  /\ ~parsed.panicked
            /\ Len(parsed.chunks) = Len(heads)
            /\ \A n \in 1..Len(heads) :
                  /\ parsed.chunks[n].kind = ClaimedKind(lines[heads[n]])
                  /\ parsed.chunks[n].kind # "Warning"
                  /\ parsed.chunks[n].lines =
                        SubSeq(lines, heads[n], ClaimedEnd(lines, heads[n]))

\* the same statement for the calls of log_to_chunck that return
C8_HoldsWhenReturned ==
    (pc = "parsed" /\ ~parsed.panicked) =>
        LET heads == ClaimedKeptHeads(lines)
        IN  /\ Len(parsed.chunks) = Len(heads)
            /\ \A n \in 1..Len(heads) :
                  /\ parsed.chunks[n].kind = ClaimedKind(lines[heads[n]])
                  /\ parsed.chunks[n].kind # "Warning"
                  /\ parsed.chunks[n].lines =
                        SubSeq(lines, heads[n], ClaimedEnd(lines, heads[n]))

\* the line get_canonicalized_msg takes the headline from is there
HasHeadline(chunk) ==
    /\ Len(chunk.lines) >= 1
    /\ chunk.kind = "VMError" => Len(chunk.lines) >= 2

(* C9: every chunk log_to_chunck hands to get_canonicalized_msg has the     *)
(* line its headline is taken from (two lines for a VMError chunk), so the  *)
(* call returns for every line sequence.                                    *)
C9_HeadlineAlwaysPresent ==
    pc = "parsed" =>
        /\ \A i \in 1..Len(RetainedChunks(lines)) :
              HasHeadline(RetainedChunks(lines)[i])
        /\ ~parsed.panicked

-----------------------------------------------------------------------------
(* SpecChunks: two chunk sequences are built, then check_chunks compares    *)
(* them.                                                                    *)

\* the most chunks on one side in SpecChunks
MaxChunks ==
    2

\* the canonical texts of the chunks of SpecChunks
ChunkTexts ==
    { <<"e","r","r","o","r",":"," ","a">>,      \* "error: a"
      <<"e","r","r","o","r",":"," ","b">> }     \* "error: b"

ChunkKinds ==
    {"Error", "Bug", "Task"}

\* chunks as log_to_chunck leaves them: canonical set, never a Warning
InputChunks ==
    {[canonical |-> c, kind |-> k, lines |-> <<c>>] :
        c \in ChunkTexts, k \in ChunkKinds}

InitChunks ==
    /\ pc = "building"
    /\ IdleSplit /\ IdleParse /\ IdleChunks /\ IdleCanon /\ IdleExec /\ IdleHook

PushV1(c) ==
    /\ pc = "building"
    /\ Len(v1_chunks) < MaxChunks
    /\ v1_chunks' = Append(v1_chunks, c)
    /\ UNCHANGED <<pc, v2_chunks, status, splitVars, parseVars, canonVars,
                   execVars, hookVars>>

PushV2(c) ==
    /\ pc = "building"
    /\ Len(v2_chunks) < MaxChunks
    /\ v2_chunks' = Append(v2_chunks, c)
    /\ UNCHANGED <<pc, v1_chunks, status, splitVars, parseVars, canonVars,
                   execVars, hookVars>>

\* let status = ResultStatus::check_chunks(&v1_chunks, &v2_chunks)
CheckChunks ==
    /\ pc = "building"
    /\ status' = check_chunks(v1_chunks, v2_chunks)
    /\ pc' = "classified"
    /\ UNCHANGED <<v1_chunks, v2_chunks, splitVars, parseVars, canonVars,
                   execVars, hookVars>>

NextChunks ==
    \/ \E c \in InputChunks : PushV1(c)
    \/ \E c \in InputChunks : PushV2(c)
    \/ CheckChunks

SpecChunks ==
    InitChunks /\ [][NextChunks]_vars

\* the condition the claim gives for Success
PositionallyEqual(a, b) ==
    \/ a = <<>> /\ b = <<>>
    \/ /\ Len(a) = Len(b)
       /\ \A i \in 1..Len(a) :
             b[i].kind # "Bug" /\ a[i].canonical = b[i].canonical

(* C5: check_chunks(A, B) is Success exactly when both are empty, or they   *)
(* are equally long and at every index B's chunk is no Bug and the two      *)
(* canonical texts are equal; it is Failure otherwise, never Unknown.       *)
C5_CheckChunksPositional ==
    pc = "classified" =>
        /\ status = (IF PositionallyEqual(v1_chunks, v2_chunks)
                     THEN "Success" ELSE "Failure")
        /\ status # "Unknown"

\* a Bug chunk on side A alone: the comparison still succeeds
C5_WitnessBugOnA ==
    /\ pc = "classified"
    /\ Len(v1_chunks) = 2
    /\ Len(v2_chunks) = 2
    /\ v1_chunks[2].kind = "Bug"
    /\ v2_chunks[2].kind = "Error"
    /\ status = "Success"

\* the same chunks in a different order on side B: Failure
C5_WitnessReordered ==
    /\ pc = "classified"
    /\ Len(v1_chunks) = 2
    /\ v1_chunks[1] # v1_chunks[2]
    /\ v2_chunks = <<v1_chunks[2], v1_chunks[1]>>
    /\ \A i \in 1..2 : v2_chunks[i].kind # "Bug"
    /\ status = "Failure"

-----------------------------------------------------------------------------
(* SpecCanon: side A reports a headline  pre local <backtick>x<backtick>    *)
(* post, side B the same headline with y for x (each after a VMError line   *)
(* when vm), and from_run_result classifies the diff.                       *)

\* the text before the quoted local
HeadlinePrefixes ==
    { \* "error: "
      <<"e","r","r","o","r",":"," ">>,
      \* "bug: "
      <<"b","u","g",":"," ">>,
      \* "in "
      <<"i","n"," ">>,
      \* "error: major_status "
      <<"e","r","r","o","r",":"," ","m","a","j","o","r","_","s","t","a","t",
        "u","s"," ">>,
      \* "error: bytecode verification failed "
      <<"e","r","r","o","r",":"," ","b","y","t","e","c","o","d","e"," ","v",
        "e","r","i","f","i","c","a","t","i","o","n"," ","f","a","i","l","e",
        "d"," ">>,
      \* "error: cannot infer type of "
      <<"e","r","r","o","r",":"," ","c","a","n","n","o","t"," ","i","n","f",
        "e","r"," ","t","y","p","e"," ","o","f"," ">>,
      \* "error: local <backtick>"
      <<"e","r","r","o","r",":"," ","l","o","c","a","l"," ",Backtick>>,
      \* "error: type <backtick>T<backtick> and "
      <<"e","r","r","o","r",":"," ","t","y","p","e"," ",Backtick,"T",
        Backtick," ","a","n","d"," ">>,
      \* "warning: "
      <<"w","a","r","n","i","n","g",":"," ">> }

\* the identifiers
Identifiers ==
    { \* "x"
      <<"x">>,
      \* "y"
      <<"y">>,
      \* "major_status"
      <<"m","a","j","o","r","_","s","t","a","t","u","s">>,
      \* "task"
      <<"t","a","s","k">> }

\* the text after the quoted local
HeadlineSuffixes ==
    { \* ""
      <<>>,
      \* " is unavailable"
      <<" ","i","s"," ","u","n","a","v","a","i","l","a","b","l","e">>,
      \* " moved, Some(3)"
      <<" ","m","o","v","e","d",","," ","S","o","m","e","(","3",")">>,
      \* " which is still mutably borrowed"
      <<" ","w","h","i","c","h"," ","i","s"," ","s","t","i","l","l"," ","m",
        "u","t","a","b","l","y"," ","b","o","r","r","o","w","e","d">>,
      \* " and local <backtick>z<backtick>"
      <<" ","a","n","d"," ","l","o","c","a","l"," ",Backtick,"z",Backtick>> }

\* pre local <backtick>id<backtick> post
Headline(pre, id, post) ==
    pre \o Str_local \o <<" ", Backtick>> \o id \o <<Backtick>> \o post

\* the lines of one side, each behind its diff marker
SideLog(sign, h, vm) ==
    (IF vm THEN <<sign, " ">> \o Str_VMError \o <<"\n">> ELSE <<>>)
        \o <<sign, " ">> \o h \o <<"\n">>

\* the diff the external toolchain reports for the two headlines
RenamedLog(hl) ==
    SideLog("-", Headline(hl.pre, hl.x, hl.post), hl.vm)
        \o SideLog("+", Headline(hl.pre, hl.y, hl.post), hl.vm)

InitCanon ==
    /\ pc = "start"
    /\ IdleSplit /\ IdleParse /\ IdleChunks /\ IdleCanon /\ IdleExec /\ IdleHook

ChooseHeadlines(pre, x, y, post, vm) ==
    /\ pc = "start"
    /\ headlines' = [pre |-> pre, x |-> x, y |-> y, post |-> post, vm |-> vm]
    /\ pc' = "chosen"
    /\ UNCHANGED <<canon, splitVars, parseVars, chunkVars, execVars, hookVars>>

\* let output = TransactionalResult::from_run_result(&result, duration)
CompareRenamed ==
    /\ pc = "chosen"
    /\ canon' = from_run_result([ok |-> FALSE, err |-> RenamedLog(headlines)], 1)
    /\ pc' = "compared"
    /\ UNCHANGED <<headlines, splitVars, parseVars, chunkVars, execVars, hookVars>>

NextCanon ==
    \/ \E pre \in HeadlinePrefixes, x \in Identifiers, y \in Identifiers,
          post \in HeadlineSuffixes, vm \in BOOLEAN :
          ChooseHeadlines(pre, x, y, post, vm)
    \/ CompareRenamed

SpecCanon ==
    InitCanon /\ [][NextCanon]_vars

\* each side came out as one chunk, both of the same kind
OneChunkEachSameKind ==
    /\ pc = "compared"
    /\ ~canon.panicked
    /\ Len(canon.result.v1_chunks) = 1
    /\ Len(canon.result.v2_chunks) = 1
    /\ canon.result.v1_chunks[1].kind = canon.result.v2_chunks[1].kind

\* a headline one of the rules before the substitutions answers
HasEarlyPhrase(h) ==
    \/ Contains(h, Str_major_status)
    \/ Contains(h, Str_bytecode_verification_failed)
    \/ Contains(h, Str_mutable_ownership_violated)
    \/ Contains(h, Str_still_mutably_borrowed)
    \/ Contains(h, Str_cannot_extract_resource)
    \/ Contains(h, Str_function_acquires_global)
    \/ Contains(h, Str_cannot_infer_type)
    \/ Contains(h, Str_unable_to_infer)

-----------------------------------------------------------------------------
(* The Executor implementation of TransactionalRunner.                      *)

\* <dyn Any + Send as Debug>::fmt, the "{:?}" of the caught panic: the text
\* is the same whatever the payload
DebugOfCaughtPanic(payload) ==
    Str_Any

(* The Result bound to result in execute_one: what the toolchain returned,  *)
(* or the caught panic turned into an error.  e is what the toolchain did:  *)
(* kind "ok", "err" (text: the Debug text of its error) or "panic" (text:   *)
(* the payload).                                                            *)
CaughtRun(e) ==
    IF e.kind = "ok" THEN [ok |-> TRUE, err |-> <<>>]
    ELSE IF e.kind = "err" THEN [ok |-> FALSE, err |-> e.text]
    ELSE [ok |-> FALSE, err |-> DebugOfCaughtPanic(e.text)]

\* execute_one, the panic hook apart (SpecHook); panicked: from_run_result
\* runs outside catch_unwind, so its panic leaves execute_one
execute_one(e, duration) ==
    from_run_result(CaughtRun(e), duration)

\* unimplemented!(): the call panics and the store is as it was
save_result(store, result) ==
    [panicked |-> TRUE, store |-> store]

should_ignore(store, result) ==
    FALSE

is_bug(result) ==
    result.status # "Success"

(* Executor::execute_save_report: the calls it makes, in order, and how it  *)
(* ends: "Ok", "Err", or "Panic" when a call it makes panics.  r is what    *)
(* execute_one gave.                                                        *)
SaveAndReport(store, r, ign, sv) ==
    IF r.panicked
    THEN [store |-> store,
          call  |-> [op |-> "execute_save_report",
                     trace |-> <<"execute_one">>,
                     result |-> NoResult, ignore |-> FALSE,
                     ret |-> "Panic"]]
    ELSE [store |-> sv.store,
          call  |-> [op |-> "execute_save_report",
                     trace |-> <<"execute_one", "should_ignore",
                                 "save_result">>,
                     result |-> r.result, ignore |-> ign,
                     ret |-> IF sv.panicked THEN "Panic"
                             ELSE IF ign THEN "Ok" ELSE "Err"]]

ReportOf(store, r) ==
    SaveAndReport(store, r, should_ignore(store, r.result),
                  save_result(store, r.result))

execute_save_report(store, e, duration) ==
    ReportOf(store, execute_one(e, duration))

-----------------------------------------------------------------------------
(* SpecExec: a fuzzing session calls execute_one and execute_save_report on *)
(* one TransactionalRunner, input after input.                              *)

\* the longest measured duration
MaxDuration ==
    2

Durations ==
    1..MaxDuration

\* the diagnostics the two toolchains report
ReportedLines ==
    { \* "error: local <backtick>v<backtick> moved"
      <<"e","r","r","o","r",":"," ","l","o","c","a","l"," ",Backtick,"v",
        Backtick," ","m","o","v","e","d">>,
      \* "error: local <backtick>w<backtick> moved"
      <<"e","r","r","o","r",":"," ","l","o","c","a","l"," ",Backtick,"w",
        Backtick," ","m","o","v","e","d">>,
      \* "bug: internal compiler error"
      <<"b","u","g",":"," ","i","n","t","e","r","n","a","l"," ","c","o","m",
        "p","i","l","e","r"," ","e","r","r","o","r">>,
      \* "VMError"
      <<"V","M","E","r","r","o","r">>,
      \* "warning: unused"
      <<"w","a","r","n","i","n","g",":"," ","u","n","u","s","e","d">> }

\* the payloads the external toolchain panics with
Payloads ==
    { \* "boom"
      <<"b","o","o","m">>,
      \* "- bug: index out of bounds"
      <<"-"," ","b","u","g",":"," ","i","n","d","e","x"," ","o","u","t"," ",
        "o","f"," ","b","o","u","n","d","s">> }

\* the Debug texts of the errors behind the results of SpecStore
StoredLogs ==
    { \* "- error: local <backtick>v<backtick> moved\n+ error: local <backtick>w<backtick> moved"
      <<"-"," ","e","r","r","o","r",":"," ","l","o","c","a","l"," ",
        Backtick,"v",Backtick," ","m","o","v","e","d","\n","+"," ","e","r",
        "r","o","r",":"," ","l","o","c","a","l"," ",Backtick,"w",Backtick,
        " ","m","o","v","e","d">>,
      \* "= error: local <backtick>v<backtick> moved"
      <<"="," ","e","r","r","o","r",":"," ","l","o","c","a","l"," ",
        Backtick,"v",Backtick," ","m","o","v","e","d">>,
      \* "+ bug: internal compiler error"
      <<"+"," ","b","u","g",":"," ","i","n","t","e","r","n","a","l"," ","c",
        "o","m","p","i","l","e","r"," ","e","r","r","o","r">> }

\* one line of the diff: a reported line behind its marker
DiffLines ==
    {SideLog(sign, l, FALSE) : sign \in {"-", "+", "="}, l \in ReportedLines}

\* the diffs of one or two lines
ErrLogs ==
    {l1 \o l2 : l1 \in DiffLines, l2 \in DiffLines \cup {<<>>}}

\* what the external toolchain can do with one input
ExtBehaviours ==
    {[kind |-> "ok", text |-> <<>>]}
        \cup {[kind |-> "err", text |-> l] : l \in ErrLogs}
        \cup {[kind |-> "panic", text |-> p] : p \in Payloads}

InitExec ==
    /\ pc = "idle"
    /\ IdleSplit /\ IdleParse /\ IdleChunks /\ IdleCanon /\ IdleExec /\ IdleHook

\* the fuzzing loop takes its next input; e is what the external toolchain
\* is going to do with it
NextInput(e) ==
    /\ pc \in {"idle", "called"}
    /\ ext' = e
    /\ call' = NoCall
    /\ pc' = "input"
    /\ UNCHANGED <<saved_results, saved_calls, splitVars, parseVars, chunkVars,
                   canonVars, hookVars>>

\* the record of a direct call of execute_one that gave r
CallOfExecuteOne(r) ==
    [op |-> "execute_one", trace |-> <<"execute_one">>, result |-> r.result,
     ignore |-> FALSE, ret |-> IF r.panicked THEN "Panic" ELSE "Returned"]

\* the state after execute_save_report gave r
Returns(r) ==
    /\ call' = r.call
    /\ saved_results' = r.store

ExecuteOne(d) ==
    /\ pc = "input"
    /\ call' = CallOfExecuteOne(execute_one(ext, d))
    /\ pc' = "called"
    /\ UNCHANGED <<ext, saved_results, saved_calls, splitVars, parseVars,
                   chunkVars, canonVars, hookVars>>

ExecuteSaveReport(d) ==
    /\ pc = "input"
    /\ Returns(execute_save_report(saved_results, ext, d))
    /\ pc' = "called"
    /\ UNCHANGED <<ext, saved_calls, splitVars, parseVars, chunkVars,
                   canonVars, hookVars>>

NextExec ==
    \/ \E e \in ExtBehaviours : NextInput(e)
    \/ \E d \in Durations : ExecuteOne(d)
    \/ \E d \in Durations : ExecuteSaveReport(d)

SpecExec ==
    InitExec /\ [][NextExec]_vars

(* C1: when the external invocation panics, whatever the payload,           *)
(* execute_one returns a result whose status is Failure and whose log       *)
(* carries the payload.                                                     *)
C1_PanicBecomesFailure ==
    (call.op = "execute_one" /\ ext.kind = "panic") =>
        /\ call.ret = "Returned"
        /\ call.result.status = "Failure"
        /\ Contains(call.result.log, ext.text)

\* what does hold: the panic does not leave execute_one
C1_PanicIsContained ==
    (call.op = "execute_one" /\ ext.kind = "panic") => call.ret = "Returned"

(* C3: one execute_save_report calls execute_one, then should_ignore, then  *)
(* save_result, each once, and returns Ok when should_ignore said true and  *)
(* an error when it said false.                                             *)
C3_ExecuteIgnoreSaveThenReport ==
    call.op = "execute_save_report" =>
        /\ call.trace = <<"execute_one", "should_ignore", "save_result">>
        /\ call.ret = (IF call.ignore THEN "Ok" ELSE "Err")

(* C4: execute_save_report returns the error only for a result that is a    *)
(* bug and Ok for a result whose status is Success; is_bug is true exactly  *)
(* of the results whose status is not Success.                              *)
C4_ErrOnlyForBugs ==
    call.op = "execute_save_report" =>
        /\ call.ret = "Err" => is_bug(call.result)
        /\ call.result.status = "Success" => call.ret = "Ok"
        /\ is_bug(call.result) <=> call.result.status # "Success"

-----------------------------------------------------------------------------
(* SpecStore: starting from empty_executor(), results are handed to         *)
(* save_result and asked about with should_ignore.                          *)

\* the most save_result calls of SpecStore
MaxSaved ==
    2

\* results execute_one returns: one without a log, and the ones of
\* StoredLogs, which differ in raw log only, or in status, each measured
\* with every duration
StoredResults ==
    {execute_one(e, d).result :
        e \in {[kind |-> "ok", text |-> <<>>]}
                 \cup {[kind |-> "err", text |-> l] : l \in StoredLogs},
        d \in Durations}

\* empty_executor()
InitStore ==
    /\ pc = "store"
    /\ IdleSplit /\ IdleParse /\ IdleChunks /\ IdleCanon /\ IdleExec /\ IdleHook

SaveResult(r) ==
    /\ pc = "store"
    /\ Len(saved_calls) < MaxSaved
    /\ saved_calls' = Append(saved_calls, r)
    /\ saved_results' = save_result(saved_results, r).store
    /\ call' = [op |-> "save_result", trace |-> <<"save_result">>,
                result |-> r, ignore |-> FALSE,
                ret |-> IF save_result(saved_results, r).panicked
                        THEN "Panic" ELSE "Returned"]
    /\ UNCHANGED <<pc, ext, splitVars, parseVars, chunkVars, canonVars, hookVars>>

ShouldIgnore(r) ==
    /\ pc = "store"
    /\ call' = [op |-> "should_ignore", trace |-> <<"should_ignore">>,
                result |-> r, ignore |-> should_ignore(saved_results, r),
                ret |-> "Returned"]
    /\ UNCHANGED <<pc, ext, saved_results, saved_calls, splitVars, parseVars,
                   chunkVars, canonVars, hookVars>>

NextStore ==
    \/ \E r \in StoredResults : SaveResult(r)
    \/ \E r \in StoredResults : ShouldIgnore(r)

SpecStore ==
    InitStore /\ [][NextStore]_vars

\* the canonical texts of a chunk sequence
Canonicals(chunks) ==
    [i \in 1..Len(chunks) |-> chunks[i].canonical]

\* equivalent results: the same status and canonical chunk sequences
Equivalent(r1, r2) ==
    /\ r1.status = r2.status
    /\ Canonicals(r1.v1_chunks) = Canonicals(r2.v1_chunks)
    /\ Canonicals(r1.v2_chunks) = Canonicals(r2.v2_chunks)

(* C2: save_result(r) returns with r recorded in the store, and             *)
(* should_ignore(r) is true exactly when a result saved before has the      *)
(* status and the canonical chunk sequences of r, whatever its raw log and  *)
(* its duration.                                                            *)
C2_IgnoreExactlySavedEquivalents ==
    /\ call.op = "save_result" =>
          /\ call.ret = "Returned"
          /\ call.result \in saved_results
    /\ call.op = "should_ignore" =>
          (call.ignore <=>
              \E i \in 1..Len(saved_calls) : Equivalent(saved_calls[i], call.result))

\* should_ignore alone: asked about a result equivalent to one handed to
\* save_result before it
C2_IgnoreAfterSave ==
    call.op = "should_ignore" =>
        (call.ignore <=>
            \E i \in 1..Len(saved_calls) : Equivalent(saved_calls[i], call.result))

-----------------------------------------------------------------------------
(* SpecHook: threads call execute_one on one TransactionalRunner (the call  *)
(* takes &self); the panic hook is one per process.  Each step is one call  *)
(* of std::panic, which locks the hook for its own duration only.           *)

\* the threads that call execute_one
NumThreads ==
    2

\* the calls one thread makes
MaxCalls ==
    2

Threads ==
    1..NumThreads

InitHook ==
    /\ pc = "threads"
    /\ IdleSplit /\ IdleParse /\ IdleChunks /\ IdleCanon /\ IdleExec
    /\ hook = "orig"
    /\ tpc = [t \in Threads |-> "idle"]
    /\ prev_hook = [t \in Threads |-> "none"]
    /\ ncalls = [t \in Threads |-> 0]

\* let prev_hook = panic::take_hook(): the hook is handed out and the
\* default hook registered in its place
TakeHook(t) ==
    /\ tpc[t] = "idle"
    /\ ncalls[t] < MaxCalls
    /\ prev_hook' = [prev_hook EXCEPT ![t] = hook]
    /\ hook' = "default"
    /\ tpc' = [tpc EXCEPT ![t] = "taken"]
    /\ UNCHANGED <<pc, ncalls, splitVars, parseVars, chunkVars, canonVars, execVars>>

\* panic::set_hook(Box::new(|_| {}))
SetSilentHook(t) ==
    /\ tpc[t] = "taken"
    /\ hook' = "silent"
    /\ tpc' = [tpc EXCEPT ![t] = "silenced"]
    /\ UNCHANGED <<pc, prev_hook, ncalls, splitVars, parseVars, chunkVars,
                   canonVars, execVars>>

\* panic::catch_unwind(..): the external invocation returns, or panics and
\* is caught
CatchUnwind(t, outcome) ==
    /\ tpc[t] = "silenced"
    /\ tpc' = [tpc EXCEPT ![t] = outcome]
    /\ UNCHANGED <<pc, hook, prev_hook, ncalls, splitVars, parseVars, chunkVars,
                   canonVars, execVars>>

\* panic::set_hook(prev_hook)
RestoreHook(t) ==
    /\ tpc[t] \in {"returned", "caught"}
    /\ hook' = prev_hook[t]
    /\ prev_hook' = [prev_hook EXCEPT ![t] = "none"]
    /\ tpc' = [tpc EXCEPT ![t] = "restored"]
    /\ UNCHANGED <<pc, ncalls, splitVars, parseVars, chunkVars, canonVars, execVars>>

\* from_run_result, dir.close(), and execute_one is left
LeaveExecuteOne(t) ==
    /\ tpc[t] = "restored"
    /\ tpc' = [tpc EXCEPT ![t] = "idle"]
    /\ ncalls' = [ncalls EXCEPT ![t] = @ + 1]
    /\ UNCHANGED <<pc, hook, prev_hook, splitVars, parseVars, chunkVars,
                   canonVars, execVars>>

NextHook ==
    \E t \in Threads :
        \/ TakeHook(t)
        \/ SetSilentHook(t)
        \/ \E outcome \in {"returned", "caught"} : CatchUnwind(t, outcome)
        \/ RestoreHook(t)
        \/ LeaveExecuteOne(t)

SpecHook ==
    InitHook /\ [][NextHook]_vars

\* every call of execute_one has been left
AllCallsReturned ==
    /\ pc = "threads"
    /\ \A t \in Threads : tpc[t] = "idle"

(* C10: once every execute_one call has returned, whatever the interleaving *)
(* of the threads, the installed panic hook is the one installed before the *)
(* first call.                                                              *)
C10_HookRestored ==
    AllCallsReturned => hook = "orig"

\* what does hold: while one thread alone calls execute_one, the hook is the
\* original one whenever that thread is outside the call
C10_RestoredForOneThread ==
    \A t \in Threads :
        ( /\ pc = "threads"
          /\ tpc[t] \in {"idle", "restored"}
          /\ \A u \in Threads \ {t} : tpc[u] = "idle" /\ ncalls[u] = 0 )
        => hook = "orig"

=============================================================================
